---- MODULE Spec2Model ----
(***************************************************************************)
(* State-machine model of src/main.py: the Telegram news bot.              *)
(*                                                                         *)
(* One process holds the module globals posted_articles and                *)
(* daily_post_count, the scheduler thread started at main.py:595 and the   *)
(* threads that the /post_now route starts (main.py:543).  Every thread    *)
(* runs post_latest_article; the model gives one action to each step of    *)
(* it that reads or writes shared state or talks to the outside world.     *)
(* The file posted_articles.json and the Telegram channel are part of the   *)
(* state.  Whether GROQ_API_KEY and the Telegram credentials are set is     *)
(* read once at import (main.py:18-20); the model lets each call find them  *)
(* set or not, which only adds behaviours.  Two threads that have the file  *)
(* open for writing at once are modelled as the last complete write winning.*)
(***************************************************************************)
EXTENDS Integers, Sequences, FiniteSets, TLC

(***************************************************************************)
(* Bounds of the model.                                                    *)
(***************************************************************************)
MaxArticles == 2   \* distinct article ids the listing page can show
MaxManual == 1     \* /post_now threads alive at the same time
MaxPage == 2       \* article containers on one listing page
MaxRuns == 2       \* runs of post_latest_article started, over all threads

(***************************************************************************)
(* The cap on stored fingerprints that the specification names MAX_STORED. *)
(* main.py defines no such constant.                                       *)
(***************************************************************************)
MAX_STORED == 1

SCHEDULER == 0
Threads == 0..MaxManual
ArticleIds == 1..MaxArticles

Range(s) == {s[i] : i \in DOMAIN s}

Perms(S) == {s \in [1..Cardinality(S) -> S] : Range(s) = S}

(***************************************************************************)
(* Strings of the listing page, by the properties the code tests.          *)
(*   href  : the href attribute of the first a[href] of a container        *)
(*   title : a text node (h4/h3/h2/.entry-title, or the anchor text)       *)
(***************************************************************************)
NoTag == [form |-> "absent", id |-> 0, video |-> FALSE]

Hrefs ==
    {[form |-> f, id |-> 0, video |-> FALSE] : f \in {"empty", "hash", "script", "offsite"}}
    \cup {[form |-> f, id |-> i, video |-> v] :
            f \in {"relative", "absolute"}, i \in ArticleIds, v \in BOOLEAN}

NoTitle == [kind |-> "absent", id |-> 0]

Titles ==
    {[kind |-> k, id |-> 0] : k \in {"empty", "short", "video"}}
    \cup {[kind |-> "headline", id |-> i] : i \in ArticleIds}

\* len(title): "" is 0, a navigation label is under 10, a headline is not
TitleLen(t) ==
    CASE t.kind = "empty" -> 0
      [] t.kind = "short" -> 6
      [] t.kind = "video" -> 24
      [] OTHER -> 40

\* "video" in title.lower()
TitleHasVideo(t) == t.kind = "video"

(***************************************************************************)
(* link after main.py:139-143: the href, made absolute by prefixing        *)
(* "https://www.myjoyonline.com" when it does not start with "http".       *)
(* A relative and an absolute href of the same article give one link.      *)
(***************************************************************************)
NoUrl == [site |-> "none", id |-> 0, video |-> FALSE]

FullUrl(href) ==
    CASE href.form = "empty" -> [site |-> "empty", id |-> 0, video |-> FALSE]
      [] href.form = "hash" -> [site |-> "own#", id |-> 0, video |-> FALSE]
      [] href.form = "script" -> [site |-> "ownjavascript:", id |-> 0, video |-> FALSE]
      [] href.form = "offsite" -> [site |-> "offsite", id |-> 0, video |-> FALSE]
      [] OTHER -> [site |-> "own", id |-> href.id, video |-> href.video]

ArticleUrl(i) == [site |-> "own", id |-> i, video |-> FALSE]

NoArticle == [title |-> NoTitle, url |-> NoUrl, image |-> FALSE]

\* no return value: an exception leaves get_latest_article (the parser
\* rejects the markup at main.py:112, outside the try blocks of the function)
RaisedArticle == [title |-> NoTitle, url |-> [site |-> "raised", id |-> 0, video |-> FALSE],
                  image |-> FALSE]

(***************************************************************************)
(* get_latest_article: the first container of the page that passes the     *)
(* checks of the loop body, or None.                                       *)
(*   container = [href, title_tag, link_text, img]                         *)
(***************************************************************************)
ContainerTitle(c) ==
    IF c.title_tag # NoTitle THEN c.title_tag ELSE c.link_text

ContainerValid(c) ==
    /\ c.href # NoTag                                       \* 136
    /\ ContainerTitle(c).kind # "empty"                     \* 154 not title
    /\ FullUrl(c.href).site # "empty"                       \* 154 not link
    /\ TitleLen(ContainerTitle(c)) >= 10                    \* 154
    /\ ~ FullUrl(c.href).video                              \* 158
    /\ ~ TitleHasVideo(ContainerTitle(c))                   \* 158

ContainerArticle(c) ==
    [title |-> ContainerTitle(c), url |-> FullUrl(c.href), image |-> c.img]

RECURSIVE FirstValid(_, _)
FirstValid(containers, i) ==
    IF i > Len(containers) THEN NoArticle
    ELSE IF ContainerValid(containers[i]) THEN ContainerArticle(containers[i])
    ELSE FirstValid(containers, i + 1)

get_latest_article(page) ==
    IF ~ page.ok THEN NoArticle               \* 108-110
    ELSE IF ~ page.parses THEN RaisedArticle  \* 112
    ELSE FirstValid(page.containers, 1)       \* 130-190

(***************************************************************************)
(* The listing pages a run of the pipeline is offered: a failed fetch,     *)
(* markup that BeautifulSoup rejects, or up to MaxPage containers, each    *)
(* the card of an article or a navigation card with a short title.         *)
(* Article i carries an image iff i is odd.                                *)
(***************************************************************************)
ArticleCard(i) ==
    [href |-> [form |-> "relative", id |-> i, video |-> FALSE],
     title_tag |-> [kind |-> "headline", id |-> i],
     link_text |-> [kind |-> "empty", id |-> 0],
     img |-> (i % 2 = 1)]

NavCard ==
    [href |-> [form |-> "relative", id |-> 1, video |-> FALSE],
     title_tag |-> NoTitle,
     link_text |-> [kind |-> "short", id |-> 0],
     img |-> FALSE]

Cards == {ArticleCard(i) : i \in ArticleIds} \cup {NavCard}

Pages ==
    {[ok |-> FALSE, parses |-> TRUE, containers |-> << >>],
     [ok |-> TRUE, parses |-> FALSE, containers |-> << >>]}
    \cup {[ok |-> TRUE, parses |-> TRUE, containers |-> s] :
            s \in UNION {[1..n -> Cards] : n \in 0..MaxPage}}

(***************************************************************************)
(* create_post_content.  path is how the call goes:                        *)
(*   no_api_key      GROQ_API_KEY is not set (199-201)                     *)
(*   fetch_error     the article fetch raises or answers an error status   *)
(*                   (205-206, caught at 311)                              *)
(*   fetch_timeout   the article fetch times out (205, caught at 308)      *)
(*   no_paragraphs   no paragraph passes the filter (236-238)              *)
(*   groq_timeout    the rewriting call times out (283, caught at 308)     *)
(*   groq_error      the rewriting call raises (283, caught at 311)        *)
(*   groq_non200     the rewriting service answers another status (303)    *)
(*   groq_unparsable the answer has no choices[0].message.content          *)
(*                   (286-287, caught at 311)                              *)
(*   rewritten       the rewriting service answers 200 with a text (285)   *)
(* Every path but the last returns the basic post built from the title.    *)
(***************************************************************************)
RewritePaths ==
    {"no_api_key", "fetch_error", "fetch_timeout", "no_paragraphs", "groq_timeout",
     "groq_error", "groq_non200", "groq_unparsable", "rewritten"}

NoMessage == [kind |-> "none", title |-> NoTitle]
Fallback(title) == [kind |-> "fallback", title |-> title]
AiMessage == [kind |-> "ai", title |-> NoTitle]
\* no return value: an exception leaves the function
Raised == [kind |-> "raised", title |-> NoTitle]

\* the except clause of main.py:311 missing: the errors it catches leave the function
create_post_content_uncaught(title, path) ==
    CASE path \in {"fetch_error", "groq_error", "groq_unparsable"} -> Raised
      [] path = "rewritten" -> AiMessage
      [] OTHER -> Fallback(title)

create_post_content(title, path) ==
    CASE path = "no_api_key" -> Fallback(title)                              \* 201
      [] path = "no_paragraphs" -> Fallback(title)                           \* 238
      [] path = "rewritten" -> AiMessage                                     \* 299-302
      [] path = "groq_non200" -> Fallback(title)                             \* 306
      [] path \in {"fetch_timeout", "groq_timeout"} -> Fallback(title)       \* 310
      [] OTHER -> Fallback(title)                                            \* 313

(***************************************************************************)
(* send_to_telegram: the return value, given the transport's answer.       *)
(***************************************************************************)
Responses == {"200", "non200", "exception"}

\* the status check of main.py:346 dropped: every answer counts as success
send_to_telegram_any_answer(has_credentials, response) ==
    IF ~ has_credentials THEN FALSE
    ELSE response # "exception"

send_to_telegram(has_credentials, response) ==
    IF ~ has_credentials THEN FALSE      \* 320-322
    ELSE response = "200"                \* 346-355

(***************************************************************************)
(* posted_articles.json.  kind is what the file holds:                     *)
(*   missing    no file                                                    *)
(*   list       a JSON list of strings (data)                              *)
(*   invalid    not JSON: empty, truncated or garbage                      *)
(*   object     a JSON object (data = its keys)                            *)
(*   number, null   a JSON scalar                                          *)
(*   unhashable a JSON list that holds lists or objects                    *)
(*   unreadable the file exists and open() fails                           *)
(* For a file that open(POSTED_FILE, "w") has truncated and that was not   *)
(* written in full since, data keeps the list the file held before: the    *)
(* program cannot read it back, it is the record of what the write lost.   *)
(***************************************************************************)
FileOf(kind, data) == [kind |-> kind, data |-> data]

\* the file right after open(POSTED_FILE, "w"): empty
Truncated(f) == FileOf("invalid", IF f.kind = "list" THEN f.data ELSE << >>)

\* load_posted_articles: raised is TRUE when an exception leaves the function
load_posted_articles(f) ==
    CASE f.kind = "missing" -> [raised |-> FALSE, value |-> {}]          \* 81-83
      [] f.kind = "list" -> [raised |-> FALSE, value |-> Range(f.data)]  \* 75-77
      [] f.kind = "invalid" -> [raised |-> FALSE, value |-> {}]          \* 78-80
      [] f.kind = "object" -> [raised |-> FALSE, value |-> Range(f.data)]   \* set(dict)
      [] f.kind \in {"number", "null"} -> [raised |-> TRUE, value |-> {}]   \* len() at 76
      [] f.kind = "unhashable" -> [raised |-> TRUE, value |-> {}]           \* set() at 77
      [] OTHER -> [raised |-> TRUE, value |-> {}]                           \* open() at 74

\* json.dump(list(articles_set)): the elements in the set's iteration order
DumpsOf(articles_set) == {FileOf("list", s) : s \in Perms(articles_set)}

\* the test of main.py:380 dropped: every harvested article counts as new
AlreadyPostedNever(url, store) == FALSE

\* membership test of main.py:380
AlreadyPosted(url, store) == url \in store

(***************************************************************************)
(* State.                                                                  *)
(*   proc             "running", or "crashed" when the module-level        *)
(*                    load_posted_articles() of main.py:95 raised          *)
(*   file             posted_articles.json                                 *)
(*   posted_articles  the global set of main.py:95                         *)
(*   daily_post_count the global of main.py:64                             *)
(*   run[t]           thread t's execution of post_latest_article: its     *)
(*                    position pc, its locals, rewrite_failed (the         *)
(*                    rewriting stage gave no rewritten post),             *)
(*                    publish_calls (calls of send_to_telegram so far),    *)
(*                    response (the transport's answer) and, once it has   *)
(*                    returned, how it ended                               *)
(*   delivered[i]     messages for article i that the channel accepted     *)
(*                    since the process started                            *)
(*   persisted        urls whose run published them and then completed     *)
(*                    save_posted_articles                                 *)
(*   boot             what the last process start found in the file and    *)
(*                    what load_posted_articles made of it                 *)
(*   save_failed      urls whose save_posted_articles caught an error at   *)
(*                    main.py:91 since the process started                 *)
(*   runs             number of runs of post_latest_article started so far *)
(* State of the harvest of one listing, main.py:372-383 applied to a page   *)
(* (specification HarvestSpec):                                             *)
(*   listing          the page that requests.get(BASE_URL) answers          *)
(*   selection        what the run made of it: no_article, already_posted   *)
(*                    or new, with the article                              *)
(* State of the building of one post, main.py:392-400 by the lengths of    *)
(* the strings (specification CaptionSpec):                                *)
(*   draft            the title and the image of the article, the way      *)
(*                    create_post_content goes and the length of the       *)
(*                    rewriting service's text                             *)
(*   request          the request that send_to_telegram posts              *)
(* State of run_keepalive_and_scheduler (specification SchedulerSpec):     *)
(*   scheduler        "running" while the loop of main.py:467 is alive     *)
(*   now              the clock that the next iteration reads at           *)
(*                    main.py:470: date, hour, minute and the half of the  *)
(*                    minute (0 for seconds 0-29, 1 for seconds 30-59)     *)
(*   last_post_date   the global of main.py:65                             *)
(*   last_check_time  the local of main.py:465: the check_key of the last  *)
(*                    call of post_latest_article that returned            *)
(*   invoked          the last call of post_latest_article by the loop:    *)
(*                    its check_key, how many calls were made for that     *)
(*                    key, and how the call ended                          *)
(* State of one call of get_next_post_time (specification NextPostSpec),   *)
(* which reads the clock now:                                              *)
(*   next_post        the text that the call returned                      *)
(***************************************************************************)
VARIABLES proc, file, posted_articles, daily_post_count, run,
          delivered, persisted, save_failed, boot, runs,
          listing, selection, draft, request,
          scheduler, now, last_post_date, last_check_time, invoked,
          next_post

\* state of the pipeline: the process, its threads, the file and the channel
pipeline == <<proc, file, posted_articles, daily_post_count, run,
              delivered, persisted, save_failed, boot, runs>>

harvest == <<listing, selection>>

caption == <<draft, request>>

schedule == <<scheduler, now, last_post_date, last_check_time, invoked>>

vars == <<pipeline, harvest, caption, schedule, next_post>>

\* what the steps of the pipeline leave alone
NotPipeline == <<harvest, caption, schedule, next_post>>

\* get_next_post_time has not been called
NoNextPost == [hh |-> << >>, mm |-> << >>, tomorrow |-> FALSE]

\* last_check_time = None (main.py:465)
NoKey == [date |-> 0, hour |-> 0, minute |-> 0]

NoInvocation == [key |-> NoKey, count |-> 0, outcome |-> "none"]

\* the scheduler thread has not started
NoSchedule ==
    /\ scheduler = "not_started"
    /\ now = [date |-> 0, hour |-> 0, minute |-> 0, half |-> 0]
    /\ last_post_date = 0
    /\ last_check_time = NoKey
    /\ invoked = NoInvocation
    /\ next_post = NoNextPost

NoDraft == [title_len |-> 0, image |-> FALSE, path |-> "none", ai_len |-> 0]

NoRequest == [method |-> "none", length |-> 0]

NoListing == [ok |-> FALSE, parses |-> TRUE, containers |-> << >>]

Pending == [outcome |-> "pending", article |-> NoArticle]


\* a thread that is not running post_latest_article and has not run it yet
IdleRun ==
    [pc |-> "idle", latest_article |-> NoArticle, message |-> NoMessage,
     rewrite_failed |-> FALSE, response |-> "none", reg |-> 0,
     publish_calls |-> 0, outcome |-> "none"]

\* return from post_latest_article: the locals are gone; how the run ended
\* stays until the thread's next run
Return(outcome) == [IdleRun EXCEPT !.outcome = outcome]

StartFiles ==
    {FileOf("missing", << >>), FileOf("number", << >>), FileOf("null", << >>),
     FileOf("unhashable", << >>), FileOf("unreadable", << >>),
     FileOf("object", <<ArticleUrl(1)>>)}

BootOf(f) ==
    [kind |-> f.kind,
     raised |-> load_posted_articles(f).raised,
     value |-> load_posted_articles(f).value]

\* module import: main.py:64-65 and 95
PipelineInit ==
    /\ file \in StartFiles
    /\ proc = IF load_posted_articles(file).raised THEN "crashed" ELSE "running"
    /\ posted_articles = load_posted_articles(file).value
    /\ daily_post_count = 0
    /\ run = [t \in Threads |-> IdleRun]
    /\ delivered = [i \in ArticleIds |-> 0]
    /\ persisted = {}
    /\ save_failed = {}
    /\ boot = BootOf(file)
    /\ runs = 0

Init ==
    /\ PipelineInit
    /\ listing = NoListing
    /\ selection = Pending
    /\ draft = NoDraft
    /\ request = NoRequest
    /\ NoSchedule

Shared == <<proc, file, posted_articles, daily_post_count, delivered,
            persisted, save_failed, boot>>

\* the scheduler loop reaches post_latest_article() (main.py:500)
ScheduledPost ==
    /\ runs < MaxRuns
    /\ proc = "running"
    /\ run[SCHEDULER].pc = "idle"
    /\ run' = [run EXCEPT ![SCHEDULER] = [IdleRun EXCEPT !.pc = "get_latest_article"]]
    /\ runs' = runs + 1
    /\ UNCHANGED Shared
    /\ UNCHANGED NotPipeline

\* GET or POST /post_now starts a thread on post_latest_article (main.py:543).
\* The new thread takes the lowest free slot: a thread's number means nothing.
post_now(t) ==
    /\ runs < MaxRuns
    /\ proc = "running"
    /\ run[t].pc = "idle"
    /\ \A u \in Threads \ {SCHEDULER} : u < t => run[u].pc # "idle"
    /\ run' = [run EXCEPT ![t] = [IdleRun EXCEPT !.pc = "get_latest_article"]]
    /\ runs' = runs + 1
    /\ UNCHANGED Shared
    /\ UNCHANGED NotPipeline

\* the test of main.py:374-377 missing: a run without an article goes on
GetLatestArticle_unchecked(t) ==
    /\ run[t].pc = "get_latest_article"
    /\ \E page \in Pages :
         LET a == get_latest_article(page)
         IN run' = [run EXCEPT ![t] =
                      IF a = RaisedArticle THEN Return("raised")
                      ELSE [@ EXCEPT !.pc = "check_posted", !.latest_article = a]]
    /\ UNCHANGED <<Shared, runs>>
    /\ UNCHANGED NotPipeline

\* main.py:372-377; an exception out of get_latest_article leaves
\* post_latest_article, whose try block starts at main.py:390
GetLatestArticle(t) ==
    /\ run[t].pc = "get_latest_article"
    /\ \E page \in Pages :
         LET a == get_latest_article(page)
         IN run' = [run EXCEPT ![t] =
                      IF a = RaisedArticle THEN Return("raised")
                      ELSE IF a = NoArticle THEN Return("no_article")
                      ELSE [@ EXCEPT !.pc = "check_posted", !.latest_article = a]]
    /\ UNCHANGED <<Shared, runs>>
    /\ UNCHANGED NotPipeline

\* main.py:380-383
CheckPosted(t) ==
    /\ run[t].pc = "check_posted"
    /\ run' = [run EXCEPT ![t] =
                 IF AlreadyPosted(run[t].latest_article.url, posted_articles)
                 THEN Return("already_posted")
                 ELSE [run[t] EXCEPT !.pc = "create_post_content"]]
    /\ UNCHANGED <<Shared, runs>>
    /\ UNCHANGED NotPipeline

\* main.py:392; an exception out of the call ends the run at main.py:412-415
CreatePostContent(t) ==
    /\ run[t].pc = "create_post_content"
    /\ \E path \in RewritePaths :
         LET message == create_post_content(run[t].latest_article.title, path)
         IN run' = [run EXCEPT ![t] =
                      IF message = Raised THEN Return("error")
                      ELSE [@ EXCEPT !.pc = "send_to_telegram",
                                     !.message = message,
                                     !.rewrite_failed = (path # "rewritten")]]
    /\ UNCHANGED <<Shared, runs>>
    /\ UNCHANGED NotPipeline

\* a retry loop around main.py:400: a failed publish is attempted again
SendToTelegram_retry(t) ==
    /\ run[t].pc = "send_to_telegram"
    /\ \E has_credentials \in BOOLEAN, response \in Responses :
         LET success == send_to_telegram(has_credentials, response)
             answer == IF has_credentials THEN response ELSE "missing_credentials"
             r == [run[t] EXCEPT !.response = answer, !.publish_calls = @ + 1]
             id == run[t].latest_article.url.id
         IN /\ run' = [run EXCEPT ![t] =
                         IF success
                         THEN [r EXCEPT !.pc = "add", !.message = NoMessage,
                                        !.rewrite_failed = FALSE]
                         ELSE r]
            /\ delivered' = IF answer = "200"
                            THEN [delivered EXCEPT ![id] = @ + 1]
                            ELSE delivered
    /\ UNCHANGED <<proc, file, posted_articles, daily_post_count,
                   persisted, save_failed, boot, runs>>
    /\ UNCHANGED NotPipeline

\* main.py:400-410; message is not read after the call
SendToTelegram(t) ==
    /\ run[t].pc = "send_to_telegram"
    /\ \E has_credentials \in BOOLEAN, response \in Responses :
         LET success == send_to_telegram(has_credentials, response)
             answer == IF has_credentials THEN response ELSE "missing_credentials"
             r == [run[t] EXCEPT !.response = answer, !.publish_calls = @ + 1,
                                 !.message = NoMessage, !.rewrite_failed = FALSE]
             id == run[t].latest_article.url.id
         IN /\ run' = [run EXCEPT ![t] =
                         IF success THEN [r EXCEPT !.pc = "add"]
                         ELSE Return("publish_failed")]
            /\ delivered' = IF answer = "200"
                            THEN [delivered EXCEPT ![id] = @ + 1]
                            ELSE delivered
    /\ UNCHANGED <<proc, file, posted_articles, daily_post_count,
                   persisted, save_failed, boot, runs>>
    /\ UNCHANGED NotPipeline

\* main.py:403 as an assignment: the store becomes the one URL
AddPosted_replace(t) ==
    /\ run[t].pc = "add"
    /\ posted_articles' = {run[t].latest_article.url}
    /\ run' = [run EXCEPT ![t] = [@ EXCEPT !.pc = "open"]]
    /\ UNCHANGED <<proc, file, daily_post_count, delivered, persisted,
                   save_failed, boot, runs>>
    /\ UNCHANGED NotPipeline

\* main.py:403
AddPosted(t) ==
    /\ run[t].pc = "add"
    /\ posted_articles' = posted_articles \cup {run[t].latest_article.url}
    /\ run' = [run EXCEPT ![t] = [@ EXCEPT !.pc = "open"]]
    /\ UNCHANGED <<proc, file, daily_post_count, delivered, persisted,
                   save_failed, boot, runs>>
    /\ UNCHANGED NotPipeline

\* the except clause of main.py:91 missing: the OSError of open() leaves
\* save_posted_articles and ends the run at main.py:412
SaveOpen_uncaught(t) ==
    /\ run[t].pc = "open"
    /\ \E opened \in BOOLEAN :
         IF opened
         THEN /\ file' = Truncated(file)
              /\ save_failed' = save_failed
              /\ run' = [run EXCEPT ![t] = [@ EXCEPT !.pc = "dump"]]
         ELSE /\ file' = file
              /\ save_failed' = save_failed \cup {run[t].latest_article.url}
              /\ run' = [run EXCEPT ![t] = Return("error")]
    /\ UNCHANGED <<proc, posted_articles, daily_post_count, delivered,
                   persisted, boot, runs>>
    /\ UNCHANGED NotPipeline

\* main.py:88: open(POSTED_FILE, "w") truncates the file, or raises OSError,
\* which main.py:91 catches
SaveOpen(t) ==
    /\ run[t].pc = "open"
    /\ \E opened \in BOOLEAN :
         IF opened
         THEN /\ file' = Truncated(file)
              /\ save_failed' = save_failed
              /\ run' = [run EXCEPT ![t] = [@ EXCEPT !.pc = "dump"]]
         ELSE /\ file' = file
              /\ save_failed' = save_failed \cup {run[t].latest_article.url}
              /\ run' = [run EXCEPT ![t] = [@ EXCEPT !.pc = "count_load"]]
    /\ UNCHANGED <<proc, posted_articles, daily_post_count, delivered,
                   persisted, boot, runs>>
    /\ UNCHANGED NotPipeline

\* main.py:89-92: json.dump and close write the whole list, or the write fails
\* part-way (disk full) and main.py:91 catches the error
SaveDump(t) ==
    /\ run[t].pc = "dump"
    /\ \E written \in BOOLEAN :
         IF written
         THEN /\ file' \in DumpsOf(posted_articles)
              /\ persisted' = persisted \cup {run[t].latest_article.url}
              /\ save_failed' = save_failed
         ELSE /\ file' = Truncated(file)
              /\ persisted' = persisted
              /\ save_failed' = save_failed \cup {run[t].latest_article.url}
    /\ run' = [run EXCEPT ![t] = [@ EXCEPT !.pc = "count_load"]]
    /\ UNCHANGED <<proc, posted_articles, daily_post_count, delivered, boot, runs>>
    /\ UNCHANGED NotPipeline

\* main.py:405, daily_post_count += 1: the read of the global
CountLoad(t) ==
    /\ run[t].pc = "count_load"
    /\ run' = [run EXCEPT ![t] = [@ EXCEPT !.pc = "count_store", !.reg = daily_post_count]]
    /\ UNCHANGED <<Shared, runs>>
    /\ UNCHANGED NotPipeline

\* main.py:405, daily_post_count += 1: the write of the global; 406-415
CountStore(t) ==
    /\ run[t].pc = "count_store"
    /\ daily_post_count' = run[t].reg + 1
    /\ run' = [run EXCEPT ![t] = Return("posted")]
    /\ UNCHANGED <<proc, file, posted_articles, delivered, persisted,
                   save_failed, boot, runs>>
    /\ UNCHANGED NotPipeline

\* the process dies at any point (the threads are daemon threads) and is
\* started again: main.py:64-65, 95
Restart ==
    /\ boot' = BootOf(file)
    /\ proc' = IF load_posted_articles(file).raised THEN "crashed" ELSE "running"
    /\ posted_articles' = load_posted_articles(file).value
    /\ daily_post_count' = 0
    /\ run' = [t \in Threads |-> IdleRun]
    /\ delivered' = [i \in ArticleIds |-> 0]
    /\ save_failed' = {}
    /\ UNCHANGED <<file, persisted, runs>>
    /\ UNCHANGED NotPipeline

Next ==
    \/ ScheduledPost
    \/ \E t \in Threads \ {SCHEDULER} : post_now(t)
    \/ \E t \in Threads : GetLatestArticle(t)
    \/ \E t \in Threads : CheckPosted(t)
    \/ \E t \in Threads : CreatePostContent(t)
    \/ \E t \in Threads : SendToTelegram(t)
    \/ \E t \in Threads : AddPosted(t)
    \/ \E t \in Threads : SaveOpen(t)
    \/ \E t \in Threads : SaveDump(t)
    \/ \E t \in Threads : CountLoad(t)
    \/ \E t \in Threads : CountStore(t)
    \/ Restart

Spec == Init /\ [][Next]_vars

(***************************************************************************)
(* HarvestSpec: get_latest_article and the test of main.py:380 applied to  *)
(* one listing page and one store.  Next to the cards of Pages the page    *)
(* can hold a card whose anchor has an empty href, "#", a javascript: link  *)
(* or a link to another site, under a headline.                            *)
(***************************************************************************)
LinkCard(form) ==
    [href |-> [form |-> form, id |-> 0, video |-> FALSE],
     title_tag |-> [kind |-> "headline", id |-> 1],
     link_text |-> [kind |-> "empty", id |-> 0],
     img |-> FALSE]

HarvestCards == Cards \cup {LinkCard(f) : f \in {"empty", "hash", "script", "offsite"}}

HarvestPages ==
    {NoListing}
    \cup {[ok |-> TRUE, parses |-> TRUE, containers |-> s] :
            s \in UNION {[1..n -> HarvestCards] : n \in 0..MaxPage}}

\* the process has started on a file that holds a list of article urls
HarvestInit ==
    /\ \E store \in SUBSET {ArticleUrl(i) : i \in ArticleIds} :
         file \in DumpsOf(store)
    /\ proc = "running"
    /\ posted_articles = load_posted_articles(file).value
    /\ daily_post_count = 0
    /\ run = [t \in Threads |-> IdleRun]
    /\ delivered = [i \in ArticleIds |-> 0]
    /\ persisted = {}
    /\ save_failed = {}
    /\ boot = BootOf(file)
    /\ runs = 0
    /\ listing \in HarvestPages
    /\ selection = Pending
    /\ draft = NoDraft
    /\ request = NoRequest
    /\ NoSchedule

\* main.py:372-383 on the page listing: the article the run goes on with
SelectLatest ==
    /\ selection = Pending
    /\ LET a == get_latest_article(listing)
       IN selection' =
            IF a = RaisedArticle THEN [outcome |-> "raised", article |-> NoArticle]
            ELSE IF a = NoArticle THEN [outcome |-> "no_article", article |-> NoArticle]
            ELSE IF AlreadyPosted(a.url, posted_articles)
                 THEN [outcome |-> "already_posted", article |-> a]
                 ELSE [outcome |-> "new", article |-> a]
    /\ UNCHANGED <<pipeline, listing, caption, schedule, next_post>>

HarvestNext == SelectLatest

HarvestSpec == HarvestInit /\ [][HarvestNext]_vars

(***************************************************************************)
(* CaptionSpec: the post that create_post_content returns and the request  *)
(* that send_to_telegram makes of it, by the lengths of the strings.       *)
(***************************************************************************)
MaxTitleLen == 1000   \* longest title text of a container
MaxAiLen == 1200      \* longest text the rewriting service answers

\* the caption limit of the transport that the specification names;
\* main.py defines no such constant
MAX_CAPTION == 1024

\* len(CHANNEL_LINK), main.py:35
CHANNEL_LINK_LEN == 47

\* len(f"📰 *{title}*\n\n{CHANNEL_LINK}"), main.py:201
FallbackLen(title_len) == 3 + title_len + 3 + CHANNEL_LINK_LEN

\* len(f"{ai_content}\n\n{CHANNEL_LINK}"), main.py:299, ai_content after the
\* strip and the replaces of main.py:287-296
AiMessageLen(ai_len) == ai_len + 2 + CHANNEL_LINK_LEN

\* len(create_post_content(title, url))
ContentLen(d) ==
    IF create_post_content([kind |-> "headline", id |-> 1], d.path) = AiMessage
    THEN AiMessageLen(d.ai_len)
    ELSE FallbackLen(d.title_len)

\* main.py:327-344: the method and the length of the caption or text posted
Payload(content_len, image) ==
    IF image THEN [method |-> "sendPhoto", length |-> content_len]
    ELSE [method |-> "sendMessage", length |-> content_len]

\* titles pass len(title) >= 10 (main.py:154) and have no upper limit
TitleLengths ==
    {10, 40, MAX_CAPTION - FallbackLen(0), MAX_CAPTION - FallbackLen(0) + 1, MaxTitleLen}

AiLengths ==
    {0, 200, MAX_CAPTION - AiMessageLen(0), MAX_CAPTION - AiMessageLen(0) + 1, MaxAiLen}

CaptionInit ==
    /\ PipelineInit
    /\ proc = "running"
    /\ listing = NoListing
    /\ selection = Pending
    /\ request = NoRequest
    /\ NoSchedule
    /\ draft \in [title_len : TitleLengths, image : BOOLEAN,
                   path : RewritePaths, ai_len : AiLengths]

\* main.py:392-400 up to the requests.post of send_to_telegram
BuildRequest ==
    /\ request = NoRequest
    /\ request' = Payload(ContentLen(draft), draft.image)
    /\ UNCHANGED <<pipeline, harvest, draft, schedule, next_post>>

CaptionNext == BuildRequest

CaptionSpec == CaptionInit /\ [][CaptionNext]_vars

(***************************************************************************)
(* SchedulerSpec: run_keepalive_and_scheduler, one action per iteration of *)
(* the loop of main.py:467-509.  post_latest_article, whose steps are the  *)
(* actions of Spec, is called from the loop and the loop waits for it; the *)
(* loop reads nothing of what the call does but whether it returned or     *)
(* raised, so the call is one step here, with the ways a run of Spec ends. *)
(* The clock takes the instants of Instants: the minutes around each       *)
(* posting time and around midnight, in halves of 30 seconds.  An          *)
(* iteration at any other instant of the same day changes check_count      *)
(* only.                                                                   *)
(***************************************************************************)
MaxDays == 2     \* days the clock runs through
MaxSleep == 2    \* instants of Instants that one sleep can move the clock by

POSTING_START_HOUR == 7
POSTING_END_HOUR == 17
POSTS_PER_DAY == 5

\* main.py:41-43; the division is exact for these constants
start_minutes == POSTING_START_HOUR * 60
end_minutes == POSTING_END_HOUR * 60
interval_minutes == (end_minutes - start_minutes) \div (POSTS_PER_DAY - 1)

\* main.py:45-49
POSTING_TIMES ==
    [i \in 1..POSTS_PER_DAY |->
        LET post_time_minutes == start_minutes + ((i - 1) * interval_minutes)
        IN <<post_time_minutes \div 60, post_time_minutes % 60>>]

MinutesPerDay == 24 * 60

ObservedMinutes ==
    {0, MinutesPerDay - 1}
    \cup {(POSTING_TIMES[i][1] * 60) + POSTING_TIMES[i][2] + k :
            i \in 1..POSTS_PER_DAY, k \in {-1, 0, 1}}

Instants ==
    {[date |-> d, hour |-> m \div 60, minute |-> m % 60, half |-> h] :
        d \in 1..MaxDays, m \in ObservedMinutes, h \in 0..1}

\* the instant in half minutes since the first midnight
Stamp(i) == ((((i.date * 24) + i.hour) * 60) + i.minute) * 2 + i.half

\* the place of an instant in the order of Instants
InstantRank ==
    [j \in Instants |-> Cardinality({k \in Instants : Stamp(k) < Stamp(j)})]

\* time.sleep(KEEPALIVE_INTERVAL) and the time the iteration took: the clock
\* at the next iteration is at least 30 seconds later
Later(i) ==
    {j \in Instants : InstantRank[j] > InstantRank[i]
                       /\ InstantRank[j] - InstantRank[i] <= MaxSleep}

\* check_key of main.py:497
CheckKey(i) == [date |-> i.date, hour |-> i.hour, minute |-> i.minute]

\* the entry of POSTING_TIMES that main.py:493-495 finds for the clock
Matches(i) ==
    {n \in 1..POSTS_PER_DAY :
        i.hour = POSTING_TIMES[n][1] /\ i.minute = POSTING_TIMES[n][2]}

\* main.py:491-498: the iteration calls post_latest_article
Due(i, last) ==
    /\ i.hour >= POSTING_START_HOUR /\ i.hour < POSTING_END_HOUR   \* 491
    /\ Matches(i) # {}                                             \* 493-495
    /\ last # CheckKey(i)                                          \* 498

\* the ways post_latest_article ends: a return (main.py:377, 383, 415) or an
\* exception raised before its try block
RunOutcomes == {"posted", "no_article", "already_posted", "publish_failed", "raised"}

\* main.py:461-465: the scheduler thread starts on the first day
SchedulerInit ==
    /\ PipelineInit
    /\ proc = "running"
    /\ listing = NoListing
    /\ selection = Pending
    /\ draft = NoDraft
    /\ request = NoRequest
    /\ scheduler = "running"
    /\ now \in {i \in Instants : i.date = 1}
    /\ last_post_date = now.date
    /\ last_check_time = NoKey
    /\ invoked = NoInvocation
    /\ next_post = NoNextPost

\* one iteration of the loop, main.py:468-509
SchedulerLoop ==
    /\ scheduler = "running"
    /\ LET reset == now.date # last_post_date                       \* 477
           count == IF reset THEN 0 ELSE daily_post_count            \* 479
       IN IF Due(now, last_check_time)
          THEN \E outcome \in RunOutcomes :                          \* 500
                 /\ invoked' = [key |-> CheckKey(now),
                                count |-> IF invoked.key = CheckKey(now)
                                          THEN invoked.count + 1 ELSE 1,
                                outcome |-> outcome]
                 /\ daily_post_count' = IF outcome = "posted" THEN count + 1 ELSE count
                 \* 501 is skipped when the call raises; 507 catches
                 /\ last_check_time' = IF outcome = "raised" THEN last_check_time
                                       ELSE CheckKey(now)
          ELSE /\ invoked' = invoked
               /\ daily_post_count' = count
               /\ last_check_time' = last_check_time
    /\ last_post_date' = now.date                                   \* 480
    /\ now' \in Later(now)                                          \* 505, 509
    /\ scheduler' = "running"
    /\ UNCHANGED <<proc, file, posted_articles, run, delivered, persisted,
                   save_failed, boot, runs>>
    /\ UNCHANGED <<harvest, caption, next_post>>

SchedulerNext == SchedulerLoop

SchedulerSpec == SchedulerInit /\ [][SchedulerNext]_vars

(***************************************************************************)
(* NextPostSpec: get_next_post_time, called by the routes / and /status    *)
(* and by the scheduler loop, at every minute of the day.                  *)
(***************************************************************************)
\* f"{n:02d}" for n < 100: the two decimal digits
Format02d(n) == <<n \div 10, n % 10>>

\* main.py:440 and 443: "HH:MM" and "HH:MM (tomorrow)"
PostTimeText(n, tomorrow) ==
    [hh |-> Format02d(POSTING_TIMES[n][1]),
     mm |-> Format02d(POSTING_TIMES[n][2]),
     tomorrow |-> tomorrow]

\* post_minutes of main.py:438
PostMinutes(n) == (POSTING_TIMES[n][1] * 60) + POSTING_TIMES[n][2]

\* the loop of main.py:437-443 from entry n on; strict is the comparison of
\* main.py:439
RECURSIVE NextPostFrom(_, _, _)
NextPostFrom(n, current_minutes, strict) ==
    IF n > POSTS_PER_DAY THEN PostTimeText(1, TRUE)                       \* 443
    ELSE IF \/ PostMinutes(n) > current_minutes
            \/ ~ strict /\ PostMinutes(n) = current_minutes               \* 439
         THEN PostTimeText(n, FALSE)                                     \* 440
         ELSE NextPostFrom(n + 1, current_minutes, strict)

\* main.py:439 with >= for >: the minute of a posting time names itself
get_next_post_time_at_or_after(i) ==
    NextPostFrom(1, (i.hour * 60) + i.minute, FALSE)

\* main.py:432-443
get_next_post_time(i) ==
    NextPostFrom(1, (i.hour * 60) + i.minute, TRUE)

NextPostInit ==
    /\ PipelineInit
    /\ proc = "running"
    /\ listing = NoListing
    /\ selection = Pending
    /\ draft = NoDraft
    /\ request = NoRequest
    /\ scheduler = "running"
    /\ now \in {[date |-> 1, hour |-> m \div 60, minute |-> m % 60, half |-> 0] :
                  m \in 0..(MinutesPerDay - 1)}
    /\ last_post_date = now.date
    /\ last_check_time = NoKey
    /\ invoked = NoInvocation
    /\ next_post = NoNextPost

\* one call of get_next_post_time, main.py:484, 519 and 563
GetNextPostTime ==
    /\ next_post = NoNextPost
    /\ next_post' = get_next_post_time(now)
    /\ UNCHANGED <<pipeline, harvest, caption, schedule>>

NextPostNext == GetNextPostTime

NextPostSpec == NextPostInit /\ [][NextPostNext]_vars

(***************************************************************************)
(* Vocabulary of the properties.                                           *)
(***************************************************************************)
\* positions of a run after a successful publish: main.py:403-408
CommitPcs == {"add", "open", "dump", "count_load", "count_store"}

\* positions of a run between its successful publish and the end of its
\* save_posted_articles
WindowPcs == {"add", "open", "dump"}

\* the step is one of thread t's run, not a restart of the process
OwnStep(t) == run'[t] # run[t] /\ run'[t] # IdleRun

UrlOf(t) == run[t].latest_article.url

InFlight == {t \in Threads : run[t].pc # "idle"}

\* C1: under any interleaving of scheduled and /post_now runs within one
\* process lifetime, no article URL is accepted by the channel more than once.
C1_NoDoublePublish ==
    \A i \in ArticleIds : delivered[i] <= 1

\* C2: at most one execution of post_latest_article is in flight at any
\* time; a trigger that arrives during a run is never executed concurrently.
C2_OneRunInFlight ==
    Cardinality(InFlight) <= 1

\* C3: a run whose harvested URL is in posted_articles when the run checks
\* it never selects the article: it has made no rewrite call and no publish
\* call, and its check ends it there with the store, the file, the daily
\* counter and the channel unchanged.
C3_PostedNeverSelected ==
    /\ [](\A t \in Threads :
            run[t].pc = "check_posted" =>
                run[t].message = NoMessage /\ run[t].publish_calls = 0)
    /\ [][\A t \in Threads :
            (/\ run[t].pc = "check_posted"
             /\ UrlOf(t) \in posted_articles
             /\ OwnStep(t))
            => /\ run'[t] = Return("already_posted")
               /\ UNCHANGED <<posted_articles, file, daily_post_count, delivered>>]_vars

\* C3 witness: a run found its article in the store and returned
C3_Witness ==
    \E t \in Threads : run[t].outcome = "already_posted"

\* C4: when the publish of a run fails (non-200 answer, transport exception
\* or missing credentials) the run ends without touching the store, the file
\* or the daily counter, no run reaches the commit without a 200 answer, and
\* the URL is still absent from the store (unless another run delivered it),
\* so the next run can select it.
C4_FailedPublishCommitsNothing ==
    /\ [](\A t \in Threads : run[t].pc \in CommitPcs => run[t].response = "200")
    /\ [][\A t \in Threads :
            (/\ run[t].pc = "send_to_telegram"
             /\ OwnStep(t)
             /\ delivered' = delivered)
            => /\ run'[t] = Return("publish_failed")
               /\ UNCHANGED <<posted_articles, file, daily_post_count>>
               /\ (UrlOf(t) \in posted_articles' => delivered[UrlOf(t).id] > 0)]_vars

\* C4 witness: a run ended on a failed publish
C4_Witness ==
    \E t \in Threads : run[t].outcome = "publish_failed"

\* C5: a URL enters posted_articles only after the channel accepted it in the
\* same run, so every entry not loaded at process start was delivered; and a
\* crash loses the fingerprint of a published URL (and so can duplicate the
\* post) only when it falls between a successful publish of that URL and the
\* end of its commit.
C5_PublishBeforeRecord ==
    /\ [](\A u \in posted_articles \ boot.value : delivered[u.id] >= 1)
    /\ [][Restart =>
            \A u \in persisted :
                u \notin posted_articles' =>
                    \E t \in Threads : UrlOf(t) = u /\ run[t].pc \in WindowPcs]_vars

\* C6: after any commit the store holds at most MAX_STORED entries, and the
\* file written by the commit holds at most MAX_STORED entries with the URL
\* just committed last.
C6_BoundedOrderedStore ==
    /\ [](Cardinality(posted_articles) <= MAX_STORED)
    /\ [][\A t \in Threads :
            (run[t].pc = "dump" /\ OwnStep(t) /\ file'.kind = "list")
            => /\ Len(file'.data) <= MAX_STORED
               /\ file'.data[Len(file'.data)] = UrlOf(t)]_vars

\* C7: when the process dies during save_posted_articles, the next
\* load_posted_articles returns the full store the file held before the save
\* or the full new store.
C7_CrashDuringPersist ==
    [][(Restart /\ \E t \in Threads : run[t].pc = "dump")
        => \/ posted_articles' = Range(file.data)
           \/ posted_articles' = posted_articles]_vars

\* C8: a URL that a run published and whose save completed is a member of the
\* store after every restart, and a run that checks it afterwards does not
\* select it.
C8_PersistedSurvivesRestart ==
    /\ [](persisted \subseteq posted_articles)
    /\ [][\A t \in Threads :
            (run[t].pc = "check_posted" /\ UrlOf(t) \in persisted /\ OwnStep(t))
            => run'[t] = Return("already_posted")]_vars

\* C9: for every state of the file other than a list of strings (missing,
\* not JSON, a JSON object, number or null, a list of unhashable elements,
\* unreadable) load_posted_articles returns the empty store and does not
\* raise, so the process starts.
C9_LoadToleratesAnyFile ==
    boot.kind # "list" =>
        /\ ~ boot.raised
        /\ boot.value = {}
        /\ proc = "running"

\* C10: whatever way the rewriting stage fails, the run goes on to exactly
\* one publish call, made with the fallback post built from the article's
\* title, and a successful publish of it is followed by the commit.
C10_RewriteFailureFallsBack ==
    /\ [](\A t \in Threads :
            (run[t].pc = "send_to_telegram" /\ run[t].rewrite_failed)
            => /\ run[t].message = Fallback(run[t].latest_article.title)
               /\ run[t].publish_calls = 0)
    /\ [](\A t \in Threads :
            run[t].pc \in CommitPcs \ {"add"} => UrlOf(t) \in posted_articles)
    /\ [][\A t \in Threads :
            (run[t].pc = "create_post_content" /\ OwnStep(t))
            => run'[t].pc = "send_to_telegram"]_vars
    /\ [][\A t \in Threads :
            (run[t].pc = "send_to_telegram" /\ run[t].rewrite_failed /\ OwnStep(t))
            => IF delivered' # delivered
               THEN run'[t].pc = "add" /\ run'[t].publish_calls = 1
               ELSE run'[t] = Return("publish_failed")]_vars

\* C10 witness: the rewriting stage failed and the run stands before its
\* publish call with the fallback post
C10_Witness ==
    \E t \in Threads :
        /\ run[t].pc = "send_to_telegram"
        /\ run[t].rewrite_failed
        /\ run[t].message = Fallback(run[t].latest_article.title)

\* C11: when save_posted_articles fails after a successful publish (open or
\* the write raises), the run goes on to its end, the process stays up, the
\* URL is in posted_articles for the rest of the process lifetime, and a run
\* that checks it afterwards ends without publishing it.
C11_FailedSaveKeepsStore ==
    /\ [](save_failed \subseteq posted_articles)
    /\ [][\A t \in Threads :
            (run[t].pc \in {"open", "dump"} /\ OwnStep(t))
            => /\ run'[t].pc \in {"dump", "count_load"}
               /\ UrlOf(t) \in posted_articles'
               /\ proc' = "running"]_vars
    /\ [][\A t \in Threads :
            (run[t].pc = "check_posted" /\ UrlOf(t) \in save_failed /\ OwnStep(t))
            => /\ run'[t] = Return("already_posted")
               /\ delivered' = delivered]_vars

\* C11 witness: a save failed, the file does not hold the URL, and a later
\* run found the URL in the store
C11_Witness ==
    \E t \in Threads :
        /\ run[t].outcome = "already_posted"
        /\ save_failed # {}
        /\ \A u \in save_failed : file.kind # "list" \/ u \notin Range(file.data)

\* positions of a run before it has made a call for the article
HarvestPcs == {"get_latest_article", "check_posted"}

\* C12: a run that finds no article on the listing (or fails to read it), or
\* whose article is in the store, ends there with no side effects: it has made no article fetch,
\* no rewrite call and no publish call, and the store, the file, the daily
\* counter and the channel are as they were.
C12_NothingNewNoSideEffects ==
    /\ [](\A t \in Threads :
            run[t].pc \in HarvestPcs =>
                /\ run[t].message = NoMessage
                /\ run[t].response = "none"
                /\ run[t].publish_calls = 0)
    /\ [][\A t \in Threads :
            (run[t].pc = "get_latest_article" /\ OwnStep(t))
            => /\ \/ run'[t] = Return("no_article")
                  \/ run'[t] = Return("raised")
                  \/ run'[t].pc = "check_posted" /\ run'[t].latest_article # NoArticle
               /\ UNCHANGED <<posted_articles, file, daily_post_count, delivered>>]_vars
    /\ [][\A t \in Threads :
            (OwnStep(t) /\ run'[t].outcome \in {"no_article", "raised", "already_posted"})
            => /\ run[t].pc \in HarvestPcs
               /\ UNCHANGED <<posted_articles, file, daily_post_count, delivered>>]_vars

\* C12 witness: a run found no article on the listing and returned
C12_Witness ==
    \E t \in Threads : run[t].outcome = "no_article"

\* urls of the containers of a page that pass the checks of get_latest_article
ValidUrls(page) ==
    IF ~ page.ok THEN {}
    ELSE {FullUrl(page.containers[i].href) :
            i \in {j \in DOMAIN page.containers : ContainerValid(page.containers[j])}}

\* C13: when the listing holds a valid article whose URL is not in the store,
\* the run selects one such article; it ends as nothing new (no article or
\* already posted) only when no valid article of the listing is new.
C13_SelectsANewArticle ==
    selection.outcome # "pending" =>
        LET new == {u \in ValidUrls(listing) : u.site = "own"} \ posted_articles
        IN /\ new # {} => selection.outcome = "new" /\ selection.article.url \in new
           /\ selection.outcome \in {"no_article", "already_posted"} => new = {}

\* C16: the article that the harvest returns has a link on the listing's own
\* site: not empty, not "#", not a javascript: link, not a link to another
\* site.
C16_LinkOnOwnSite ==
    selection.outcome \in {"new", "already_posted"} =>
        selection.article.url.site = "own"

\* the order of the positions of post_latest_article, main.py:372-405
PcRank(pc) ==
    CASE pc = "get_latest_article" -> 1
      [] pc = "check_posted" -> 2
      [] pc = "create_post_content" -> 3
      [] pc = "send_to_telegram" -> 4
      [] pc = "add" -> 5
      [] pc = "open" -> 6
      [] pc = "dump" -> 7
      [] pc = "count_load" -> 8
      [] pc = "count_store" -> 9
      [] OTHER -> 0

\* C14: a run goes through its stages (listing fetch, article fetch and
\* rewrite call, publish call) in order and enters none twice: every step of
\* a run moves it to a later stage or ends it, so a failed stage is not tried
\* again; a run makes at most one publish call and none before the publish
\* stage.
C14_NoRetryWithinRun ==
    /\ [](\A t \in Threads :
            /\ run[t].publish_calls <= 1
            /\ PcRank(run[t].pc) \in 1..4 => run[t].publish_calls = 0)
    /\ [][\A t \in Threads :
            (run[t].pc # "idle" /\ OwnStep(t))
            => \/ run'[t].pc = "idle"
               \/ PcRank(run'[t].pc) > PcRank(run[t].pc)]_vars

\* C14 witness: one run ended on a failed publish while another has made its
\* one publish call
C14_Witness ==
    \E t, u \in Threads :
        /\ run[t].outcome = "publish_failed"
        /\ run[u].publish_calls = 1

\* C15: a post with an image goes out as image-with-caption, a post without
\* one as plain text, and the caption of an image post is at most MAX_CAPTION
\* characters long, for every title and every rewritten text.
C15_CaptionWithinLimit ==
    request # NoRequest =>
        /\ request.method = (IF draft.image THEN "sendPhoto" ELSE "sendMessage")
        /\ request.method = "sendPhoto" => request.length <= MAX_CAPTION

\* the clock stands in the minute of an entry of POSTING_TIMES
IsPostingTime(i) == Matches(i) # {}

\* C18: POSTING_TIMES is 07:00, 09:30, 12:00, 14:30, 17:00, and on every day
\* an iteration of the loop that reads the clock in the minute of one of
\* these times leaves post_latest_article called for that day and time.
C18_EveryPostingTimeTriggers ==
    /\ [](POSTING_TIMES = <<(<<7, 0>>), (<<9, 30>>), (<<12, 0>>), (<<14, 30>>), (<<17, 0>>)>>)
    /\ [][(now' # now /\ IsPostingTime(now))
            => invoked'.key = CheckKey(now)]_vars

\* C19: for each day and each posting time the loop calls
\* post_latest_article at most once, however the call ends.
C19_OncePerSlot ==
    invoked.count <= 1

\* a step of thread t's run of post_latest_article
RunStep(t) ==
    \/ GetLatestArticle(t) \/ CheckPosted(t) \/ CreatePostContent(t)
    \/ SendToTelegram(t) \/ AddPosted(t) \/ SaveOpen(t) \/ SaveDump(t)
    \/ CountLoad(t) \/ CountStore(t)

\* every request of a run carries a timeout (main.py:105, 205, 283, 335, 344)
\* and the threads are scheduled fairly: a run that can take a step takes it
FairSpec == Spec /\ \A t \in Threads : WF_vars(RunStep(t))

\* under FairSpec every run of post_latest_article ends
RunsTerminate ==
    \A t \in Threads : (run[t].pc # "idle") ~> (run[t].pc = "idle")

\* under Spec no step of a run stops the process
RunsKeepProcessUp ==
    [][\A t \in Threads : OwnStep(t) => proc' = "running"]_vars

\* C20: the scheduler loop is alive after every iteration, and after a run
\* that failed or raised, an iteration that reads the clock in the minute of
\* a later posting time calls post_latest_article for it.
C20_LoopSurvivesFailures ==
    /\ [](scheduler = "running")
    /\ [][(/\ now' # now
           /\ invoked.outcome \in {"no_article", "publish_failed", "raised"}
           /\ IsPostingTime(now)
           /\ CheckKey(now) # invoked.key)
            => invoked'.key = CheckKey(now)]_vars

\* messages that the channel accepted since the process started
RECURSIVE SumDelivered(_)
SumDelivered(ids) ==
    IF ids = {} THEN 0
    ELSE LET i == CHOOSE j \in ids : TRUE
         IN delivered[i] + SumDelivered(ids \ {i})

\* C21: when no run is in flight, daily_post_count is the number of
\* successful publishes since the counter was last set to 0: no increment
\* is lost when runs overlap.
C21_DailyCountAccurate ==
    InFlight = {} => daily_post_count = SumDelivered(ArticleIds)

\* C22: within one process lifetime no step removes a URL from
\* posted_articles, so the count that / and /status report never decreases.
C22_StoreOnlyGrows ==
    [][Restart \/ (/\ posted_articles \subseteq posted_articles'
                   /\ Cardinality(posted_articles) <= Cardinality(posted_articles'))]_vars

\* C22 witness: a run has added its URL to a store that held another one
C22_Witness ==
    \E t \in Threads :
        /\ run[t].pc = "open"
        /\ UrlOf(t) \in posted_articles
        /\ posted_articles # {UrlOf(t)}

\* the number that two decimal digits write
FromDigits(d) == (d[1] * 10) + d[2]

\* C23: at every minute of the day get_next_post_time returns the text of
\* the earliest entry of POSTING_TIMES that is later than the clock's
\* hour:minute, and the text of the first entry marked (tomorrow) exactly
\* when no entry is later.
C23_NextPostTime ==
    next_post # NoNextPost =>
        LET current == (now.hour * 60) + now.minute
            later == {n \in 1..POSTS_PER_DAY : PostMinutes(n) > current}
            shown == (FromDigits(next_post.hh) * 60) + FromDigits(next_post.mm)
        IN /\ next_post.tomorrow <=> later = {}
           /\ later = {} => shown = PostMinutes(1)
           /\ later # {} => \E n \in later : shown = PostMinutes(n)
           /\ \A n \in later : shown <= PostMinutes(n)

\* C23 witness: the call is made in the minute of the last posting time and
\* returns the first one, marked (tomorrow)
C23_Witness ==
    /\ next_post # NoNextPost
    /\ (now.hour * 60) + now.minute = PostMinutes(POSTS_PER_DAY)
    /\ next_post.tomorrow

====
